---- MODULE Spec2Model ----
(***************************************************************************)
(* ask_ai: one entry point, ask_question, dispatching a Question to one of *)
(* three provider adapters (OpenAI, Anthropic, Ollama).  Every adapter     *)
(* assembles a role-tagged message list, performs one awaited provider     *)
(* call through the provider's client crate and extracts the answer.       *)
(*                                                                         *)
(* A call is modelled in two steps split at its single await point: the   *)
(* part of the adapter up to the provider call (ask_question) and the part *)
(* after the provider answered (the *_complete actions).  The process      *)
(* environment (std::env) is shared by all calls.                          *)
(***************************************************************************)
EXTENDS Integers, Sequences, FiniteSets, TLC

\* ------------------------------------------------------------------ bounds
MaxHistory == 2

\* --------------------------------------------------------------- Option<T>
None == [is_some |-> FALSE, val |-> ""]
Some(v) == [is_some |-> TRUE, val |-> v]
is_some(o) == o.is_some
unwrap(o) == o.val

\* ------------------------------------------------------------- config.rs
Framework == {"OpenAI", "Anthropic", "Ollama"}

\* impl fmt::Display for Framework
Display(f) ==
    CASE f = "OpenAI" -> "openai"
      [] f = "Anthropic" -> "anthropic"
      [] f = "Ollama" -> "ollama"

\* model names a caller may configure: an OpenAI model, a model the Claude
\* model enumeration knows, and a name that is no provider's model
KnownClaudeModels == {"claude-3-haiku-20240307"}
ModelNames == {"gpt-3.5-turbo"} \cup KnownClaudeModels \cup {"claude-nonexistent-model"}

AiConfig == [llm : Framework, model : ModelNames, max_token : {None, Some(256)}]

UserTexts == {"", "hello"}
AssistantTexts == {"", "hi"}
AiPrompt == [content : UserTexts, output : AssistantTexts]

Histories == UNION {[1..n -> AiPrompt] : n \in 0..MaxHistory}

Question ==
    [system_prompt : {None, Some(""), Some("sys")},
     messages : {None} \cup {Some(h) : h \in Histories},
     new_prompt : {"", "ask"}]

\* ------------------------------------------------------------- error.rs
ModelError(model_name, failure_str) ==
    [variant |-> "ModelError", model_name |-> model_name, failure_str |-> failure_str]
ApiError(model_name, failure_str) ==
    [variant |-> "ApiError", model_name |-> model_name, failure_str |-> failure_str]

UnexpectedError(msg) ==
    [variant |-> "UnexpectedError", model_name |-> "", failure_str |-> msg]

\* Result<String> of a call, or the call aborted by a panic
NoResult == [tag |-> "None"]
Ok(answer) == [tag |-> "Ok", val |-> answer]
Err(e) == [tag |-> "Err", err |-> e]
Panic(at) == [tag |-> "Panic", at |-> at]

\* ------------------------------------------------------ process environment
EnvNames == {"OPENAI_API_KEY", "ANTHROPIC_API_KEY", "OPENAI_API_URL", "ANTHROPIC_API_URL"}
KeyNames == {"OPENAI_API_KEY", "ANTHROPIC_API_KEY"}

\* a variable is absent, holds a unicode value, or holds bytes that are not
\* valid unicode
Unset == [state |-> "Unset", val |-> ""]
Value(v) == [state |-> "Value", val |-> v]
NotUnicodeValue == [state |-> "NotUnicode", val |-> ""]

EnvValues(name) ==
    IF name \in KeyNames THEN {Value("key"), NotUnicodeValue} ELSE {Value("http://mock")}

\* a lookup that yields the empty string for a variable that is not set
env_var_or_default(e, name) ==
    CASE e[name].state = "Value" -> Ok(e[name].val)
      [] e[name].state = "Unset" -> Ok("")
      [] e[name].state = "NotUnicode" -> Err("NotUnicode")

\* std::env::var(name): Ok(value) | Err(VarError)
env_var(e, name) ==
    CASE e[name].state = "Value" -> Ok(e[name].val)
      [] e[name].state = "Unset" -> Err("NotPresent")
      [] e[name].state = "NotUnicode" -> Err("NotUnicode")

\* impl Display for VarError, as used by e.to_string()
VarErrorToString(e) ==
    IF e = "NotPresent" THEN <<"environment variable not found">>
    ELSE <<"environment variable was not valid unicode">>

\* ------------------------------------------------- provider responses
\* What the provider endpoint answers to one request: a transport failure,
\* or an HTTP status with a body.  A body is abstracted to its raw text, to
\* whether it is JSON, to whether it has the answer list (choices / content)
\* and to the JSON value found at each list element's text field.
JStr(s) == [t |-> "string", s |-> s]
JNull == [t |-> "null", s |-> ""]
JNum == [t |-> "number", s |-> ""]

Body(raw, valid_json, has_list, items) ==
    [raw |-> raw, valid_json |-> valid_json, has_list |-> has_list, items |-> items]

BodyAnswer == Body("answer", TRUE, TRUE, <<JStr("Hello (mock)!")>>)
BodyTwoAnswers == Body("two answers", TRUE, TRUE, <<JStr(" first answer "), JStr("second answer")>>)
BodyEmpty == Body("empty-list", TRUE, TRUE, <<>>)
BodyNull == Body("null-content", TRUE, TRUE, <<JNull>>)
BodyNumber == Body("number-content", TRUE, TRUE, <<JNum>>)
BodyErrorJson == Body("model_not_supported", TRUE, FALSE, <<>>)
BodyGarbage == Body("not json", FALSE, FALSE, <<>>)

TransportFailure == [transport |-> "fail", status |-> 0, body |-> BodyGarbage]
Http(status, body) == [transport |-> "ok", status |-> status, body |-> body]

Responses ==
    {TransportFailure}
    \cup {Http(200, b) : b \in {BodyAnswer, BodyTwoAnswers, BodyEmpty, BodyNull, BodyNumber, BodyErrorJson, BodyGarbage}}
    \cup {Http(s, b) : s \in {400, 401}, b \in {BodyErrorJson, BodyGarbage}}

Is2xx(status) == status >= 200 /\ status <= 299

StatusText(status) ==
    CASE status = 200 -> "200"
      [] status = 400 -> "400"
      [] status = 401 -> "401"
      [] OTHER -> "0"

\* ------------------------------------------------- message assembly
DefaultSysPrompt == "You are helpful assistant. Answer the question consicely."

\* Vec::push
push(v, x) == Append(v, x)

\* get_ollama_response: the `for msg in question.messages.unwrap().iter()` loop,
\* run from turn i on the list built so far
RECURSIVE ollama_history(_, _, _)
ollama_history(msgs, turns, i) ==
    IF i > Len(turns) THEN msgs
    ELSE LET msg == turns[i]
             m1 == IF msg.content /= ""
                   THEN push(msgs, [role |-> "user", content |-> msg.content])
                   ELSE msgs
             m2 == IF msg.output /= ""
                   THEN push(m1, [role |-> "assistant", content |-> msg.output])
                   ELSE m1
         IN ollama_history(m2, turns, i + 1)

\* a list that has a system entry only when a system prompt is given
ollama_msgs_optional_system(question) ==
    LET m0 == IF is_some(question.system_prompt)
              THEN push(<<>>, [role |-> "system", content |-> unwrap(question.system_prompt)])
              ELSE <<>>
        m1 == IF is_some(question.messages)
              THEN ollama_history(m0, unwrap(question.messages), 1)
              ELSE m0
    IN IF question.new_prompt = ""
       THEN push(m1, [role |-> "user", content |-> "."])
       ELSE push(m1, [role |-> "user", content |-> question.new_prompt])

\* get_ollama_response: msgs as it stands before the request is constructed
ollama_msgs(question) ==
    LET m0 == IF is_some(question.system_prompt)
              THEN push(<<>>, [role |-> "system", content |-> unwrap(question.system_prompt)])
              ELSE push(<<>>, [role |-> "system", content |-> DefaultSysPrompt])
        m1 == IF is_some(question.messages)
              THEN ollama_history(m0, unwrap(question.messages), 1)
              ELSE m0
    IN IF question.new_prompt = ""
       THEN push(m1, [role |-> "user", content |-> "."])
       ELSE push(m1, [role |-> "user", content |-> question.new_prompt])

\* a history loop that emits a turn's assistant text before its user text
RECURSIVE openai_history_assistant_first(_, _, _)
openai_history_assistant_first(msgs, turns, i) ==
    IF i > Len(turns) THEN msgs
    ELSE LET msg == turns[i]
             m1 == IF msg.output /= ""
                   THEN push(msgs, [role |-> "assistant", content |-> msg.output])
                   ELSE msgs
             m2 == IF msg.content /= ""
                   THEN push(m1, [role |-> "user", content |-> msg.content])
                   ELSE m1
         IN openai_history_assistant_first(m2, turns, i + 1)

\* get_openai_response: the history loop
RECURSIVE openai_history(_, _, _)
openai_history(msgs, turns, i) ==
    IF i > Len(turns) THEN msgs
    ELSE LET msg == turns[i]
             m1 == IF msg.content /= ""
                   THEN push(msgs, [role |-> "user", content |-> msg.content])
                   ELSE msgs
             m2 == IF msg.output /= ""
                   THEN push(m1, [role |-> "assistant", content |-> msg.output])
                   ELSE m1
         IN openai_history(m2, turns, i + 1)

\* a final entry that takes the new prompt as it is, empty or not
openai_usr_input_verbatim(new_prompt) ==
    new_prompt
\* get_openai_response: `let usr_input = if question.new_prompt.is_empty() ...`
openai_usr_input(new_prompt) ==
    IF new_prompt = "" THEN "." ELSE new_prompt

\* get_openai_response: msgs as handed to ChatCompletionRequest::new
openai_msgs(question) ==
    LET m0 == IF is_some(question.system_prompt)
              THEN push(<<>>, [role |-> "system", content |-> unwrap(question.system_prompt)])
              ELSE push(<<>>, [role |-> "system", content |-> DefaultSysPrompt])
        m1 == IF is_some(question.messages)
              THEN openai_history(m0, unwrap(question.messages), 1)
              ELSE m0
    IN push(m1, [role |-> "user", content |-> openai_usr_input(question.new_prompt)])

\* get_anthropic_response: one text block, `vec![Content { .. }]`
TextBlock(text) == <<[content_type |-> "text", text |-> text]>>

\* get_anthropic_response: `let sys_prompt = if question.system_prompt.is_some() ...`
anthropic_sys_prompt(question) ==
    IF is_some(question.system_prompt)
    THEN [form |-> "Structured", text |-> unwrap(question.system_prompt)]
    ELSE [form |-> "Text", text |-> DefaultSysPrompt]

\* a history loop that skips an entry equal to the one pushed last
RECURSIVE anthropic_history_dedup(_, _, _)
anthropic_history_dedup(msgs, turns, i) ==
    IF i > Len(turns) THEN msgs
    ELSE LET msg == turns[i]
             user == [role |-> "user", content |-> TextBlock(msg.content)]
             assistant == [role |-> "assistant", content |-> TextBlock(msg.output)]
             m1 == IF msg.content /= "" /\ ~(\E k \in 1..Len(msgs) : msgs[k] = user)
                   THEN push(msgs, user)
                   ELSE msgs
             m2 == IF msg.output /= "" /\ ~(\E k \in 1..Len(m1) : m1[k] = assistant)
                   THEN push(m1, assistant)
                   ELSE m1
         IN anthropic_history_dedup(m2, turns, i + 1)

\* get_anthropic_response: the history loop
RECURSIVE anthropic_history(_, _, _)
anthropic_history(msgs, turns, i) ==
    IF i > Len(turns) THEN msgs
    ELSE LET msg == turns[i]
             m1 == IF msg.content /= ""
                   THEN push(msgs, [role |-> "user", content |-> TextBlock(msg.content)])
                   ELSE msgs
             m2 == IF msg.output /= ""
                   THEN push(m1, [role |-> "assistant", content |-> TextBlock(msg.output)])
                   ELSE m1
         IN anthropic_history(m2, turns, i + 1)

\* a final entry that takes the new prompt as it is, empty or not
anthropic_usr_input_unnormalized(new_prompt) ==
    new_prompt

\* get_anthropic_response: `let usr_input = if question.new_prompt.is_empty() ...`
anthropic_usr_input(new_prompt) ==
    IF new_prompt = "" THEN "." ELSE new_prompt

\* get_anthropic_response: msgs as moved into the MessageRequest
anthropic_msgs(question) ==
    LET m1 == IF is_some(question.messages)
              THEN anthropic_history(<<>>, unwrap(question.messages), 1)
              ELSE <<>>
    IN push(m1, [role |-> "user", content |-> TextBlock(anthropic_usr_input(question.new_prompt))])

\* get_anthropic_response: `1024_u32`
DefaultMaxToken == 1024

\* a limit that ignores the caller's configuration
anthropic_max_token_fixed(ai_config) ==
    DefaultMaxToken

\* get_anthropic_response: `let max_token = if ai_config.max_token.is_some() ...`
anthropic_max_token(ai_config) ==
    IF is_some(ai_config.max_token) THEN unwrap(ai_config.max_token) ELSE DefaultMaxToken

\* ------------------------------------------------- provider client calls
\* One request as it leaves the process.
Request(provider, url, key, model, messages, system, max_tokens) ==
    [provider |-> provider, url |-> url, key |-> key, model |-> model,
     messages |-> messages, system |-> system, max_tokens |-> max_tokens]

OpenAiUrl == "https://api.openai.com/v1/chat/completions"
AnthropicUrl == "https://api.anthropic.com/v1/messages"
OllamaUrl == "http://127.0.0.1:11434/api/chat"

\* Error::to_string() of a failed client call: the transport failure, or the
\* status and the body of a non-2xx answer, or the decode failure
ClientErrorText(resp) ==
    IF resp.transport = "fail" THEN <<"error sending request">>
    ELSE IF ~Is2xx(resp.status) THEN <<StatusText(resp.status), resp.body.raw>>
    ELSE <<"error decoding response body", resp.body.raw>>

\* client.chat_completion(req).await: Err on a transport failure, on a
\* non-2xx status and on a body that does not deserialize (content is an
\* optional string); otherwise the response with its choices
chat_completion(resp) ==
    IF \/ resp.transport = "fail"
       \/ ~Is2xx(resp.status)
       \/ ~resp.body.valid_json
       \/ ~resp.body.has_list
       \/ \E i \in 1..Len(resp.body.items) : resp.body.items[i].t = "number"
    THEN Err(ClientErrorText(resp))
    ELSE Ok([choices |->
               [i \in 1..Len(resp.body.items) |->
                  IF resp.body.items[i].t = "string"
                  THEN Some(resp.body.items[i].s) ELSE None]])

\* client.create_message(message).await: as above, the text of a content
\* block being a required string
create_message(resp) ==
    IF \/ resp.transport = "fail"
       \/ ~Is2xx(resp.status)
       \/ ~resp.body.valid_json
       \/ ~resp.body.has_list
       \/ \E i \in 1..Len(resp.body.items) : resp.body.items[i].t /= "string"
    THEN Err(ClientErrorText(resp))
    ELSE Ok([content |-> [i \in 1..Len(resp.body.items) |-> resp.body.items[i].s]])

\* ollama.send_chat_messages_with_history(&mut msgs, req): the request's
\* messages are pushed onto the history and the history is what is sent
send_chat_messages_with_history(history, req_messages) ==
    history \o req_messages

\* the awaited result of send_chat_messages_with_history: one message with
\* a required string content
chat_message_response(resp) ==
    IF \/ resp.transport = "fail"
       \/ ~Is2xx(resp.status)
       \/ ~resp.body.valid_json
       \/ ~resp.body.has_list
       \/ Len(resp.body.items) = 0
       \/ resp.body.items[1].t /= "string"
    THEN Err(ClientErrorText(resp))
    ELSE Ok([message |-> [content |-> resp.body.items[1].s]])

\* ClaudeModel::from_str(&ai_config.model)
ClaudeModel_from_str(name) ==
    IF name \in KnownClaudeModels THEN Ok(name) ELSE Err(<<"Matching variant not found">>)

\* ------------------------------------------------- adapters, up to the await
\* What an adapter has done when it suspends on the provider call or returns
\* early: where the call stands, the assembled list, the requests sent, and
\* the result when there is one.
Suspended(msgs, requests) ==
    [pc |-> "awaiting", msgs |-> msgs, net |-> requests, result |-> NoResult]
Returned(result) ==
    [pc |-> "done", msgs |-> <<>>, net |-> <<>>, result |-> result]

\* a credential failure reported in the Model category
openai_key_error_as_model(ai_config, e) ==
    ModelError(ai_config.model, VarErrorToString(e))

\* get_openai_response: the map_err closure of the credential lookup
openai_key_error(ai_config, e) ==
    ApiError(ai_config.llm, VarErrorToString(e))

\* a provider call that is issued a second time
openai_send_twice(key, ai_config, msgs) ==
    <<Request("OpenAI", OpenAiUrl, Some(key), ai_config.model, msgs, None, None),
      Request("OpenAI", OpenAiUrl, Some(key), ai_config.model, msgs, None, None)>>

\* get_openai_response: client.chat_completion(req) is one request
openai_send(key, ai_config, msgs) ==
    <<Request("OpenAI", OpenAiUrl, Some(key), ai_config.model, msgs, None, None)>>

\* OpenAIClient::builder().with_api_key(api_key).build(): the builder fails
\* only without an API key, and one is always given
OpenAIClient_build(api_key) == Ok(api_key)

\* get_openai_response, from entry to `client.chat_completion(req).await`
get_openai_response(e, question, ai_config, client_ok) ==
    LET api_key == env_var(e, "OPENAI_API_KEY")
        msgs == openai_msgs(question)
    IN IF api_key.tag = "Err" THEN Returned(Err(openai_key_error(ai_config, api_key.err)))
       ELSE IF OpenAIClient_build(api_key.val).tag = "Err"
            THEN Returned(Panic("OpenAIClient::builder().build().unwrap()"))
       ELSE Suspended(msgs, openai_send(api_key.val, ai_config, msgs))

\* an answer taken from the last choice instead of the first
openai_complete_last_choice(ai_config, resp) ==
    LET result == chat_completion(resp)
    IN IF result.tag = "Err"
       THEN Err(ModelError(ai_config.model, result.err))
       ELSE IF Len(result.val.choices) = 0 THEN Panic("result.choices[0]")
       ELSE IF ~is_some(result.val.choices[Len(result.val.choices)]) THEN Panic("content.unwrap()")
       ELSE Ok(unwrap(result.val.choices[Len(result.val.choices)]))

\* get_openai_response, from the awaited result to the return
openai_complete(ai_config, resp) ==
    LET result == chat_completion(resp)
    IN IF result.tag = "Err"
       THEN Err(ModelError(ai_config.model, result.err))
       ELSE IF Len(result.val.choices) = 0 THEN Panic("result.choices[0]")
       ELSE IF ~is_some(result.val.choices[1]) THEN Panic("content.unwrap()")
       ELSE Ok(unwrap(result.val.choices[1]))

\* get_anthropic_response: the map_err closure of the credential lookup
anthropic_key_error(ai_config, e) ==
    ApiError(ai_config.llm, VarErrorToString(e))

\* get_anthropic_response: client.create_message(message) is one request
anthropic_send(key, claude_model, question, ai_config, msgs) ==
    <<Request("Anthropic", AnthropicUrl, Some(key), claude_model, msgs,
              Some(anthropic_sys_prompt(question)), Some(anthropic_max_token(ai_config)))>>

\* Client::new(config): a Result; client_ok is whether the HTTP client
\* could be built from the configuration
Client_new(api_key, client_ok) ==
    IF client_ok THEN Ok(api_key) ELSE Err(<<"client error">>)

\* get_anthropic_response, from entry to `client.create_message(message).await`
get_anthropic_response(e, question, ai_config, client_ok) ==
    LET api_key == env_var(e, "ANTHROPIC_API_KEY")
        claude_model == ClaudeModel_from_str(ai_config.model)
        msgs == anthropic_msgs(question)
    IN IF api_key.tag = "Err" THEN Returned(Err(anthropic_key_error(ai_config, api_key.err)))
       ELSE IF Client_new(api_key.val, client_ok).tag = "Err"
            THEN Returned(Panic("Client::new(config).unwrap()"))
       ELSE IF claude_model.tag = "Err"
            THEN Returned(Err(ModelError(ai_config.model, claude_model.err)))
       ELSE Suspended(msgs, anthropic_send(api_key.val, claude_model.val, question, ai_config, msgs))

\* a failed provider call reported with the catch-all variant
anthropic_complete_unexpected(ai_config, resp) ==
    LET result == create_message(resp)
    IN IF result.tag = "Err"
       THEN Err(UnexpectedError(result.err))
       ELSE IF Len(result.val.content) = 0 THEN Panic("result.content[0]")
       ELSE Ok(result.val.content[1])

\* get_anthropic_response, from the awaited result to the return
anthropic_complete(ai_config, resp) ==
    LET result == create_message(resp)
    IN IF result.tag = "Err"
       THEN Err(ModelError(ai_config.model, result.err))
       ELSE IF Len(result.val.content) = 0 THEN Panic("result.content[0]")
       ELSE Ok(result.val.content[1])

\* get_ollama_response, from entry to the awaited send
get_ollama_response(e, question, ai_config, client_ok) ==
    LET msgs == ollama_msgs(question)
    IN Suspended(msgs,
                 <<Request("Ollama", OllamaUrl, None, ai_config.model,
                           send_chat_messages_with_history(msgs, msgs), None, None)>>)

\* a failed chat call reported in the Api category
ollama_complete_api_error(ai_config, resp) ==
    LET result == chat_message_response(resp)
    IN IF result.tag = "Err"
       THEN Err(ApiError(ai_config.llm, result.err))
       ELSE Ok(result.val.message.content)

\* get_ollama_response, from the awaited result to the return
ollama_complete(ai_config, resp) ==
    LET result == chat_message_response(resp)
    IN IF result.tag = "Err"
       THEN Err(ModelError(ai_config.model, result.err))
       ELSE Ok(result.val.message.content)

\* ------------------------------------------------- state
CallIds == {1, 2}

VARIABLES
    env,        \* the process environment: variable name -> Unset | Value | NotUnicode
    pc,         \* per call: "idle", "awaiting" (provider call in flight), "done"
    ai_config,  \* per call: the &AiConfig argument
    question,   \* per call: the Question argument
    invoked,    \* per call: the adapters ask_question has entered, in order
    msgs,       \* per call: the message list the adapter assembled
    net,        \* per call: the requests sent to a provider, in order
    response,   \* per call: the provider's answer, once it arrived
    result      \* per call: what ask_question returned (or Panic)

vars == <<env, pc, ai_config, question, invoked, msgs, net, response, result>>

NoConfig == [llm |-> "", model |-> "", max_token |-> None]
NoQuestion == [system_prompt |-> None, messages |-> None, new_prompt |-> ""]
NoResponse == [transport |-> "none", status |-> 0, body |-> BodyGarbage]

Init ==
    /\ env = [n \in EnvNames |-> Unset]
    /\ pc = [c \in CallIds |-> "idle"]
    /\ ai_config = [c \in CallIds |-> NoConfig]
    /\ question = [c \in CallIds |-> NoQuestion]
    /\ invoked = [c \in CallIds |-> <<>>]
    /\ msgs = [c \in CallIds |-> <<>>]
    /\ net = [c \in CallIds |-> <<>>]
    /\ response = [c \in CallIds |-> NoResponse]
    /\ result = [c \in CallIds |-> NoResult]

\* ------------------------------------------------- operations
\* env::set_var(name, value), by the embedding program or a test
set_var(name, v) ==
    /\ env[name] /= v
    /\ env' = [env EXCEPT ![name] = v]
    /\ UNCHANGED <<pc, ai_config, question, invoked, msgs, net, response, result>>

\* env::remove_var(name)
remove_var(name) ==
    /\ env[name] /= Unset
    /\ env' = [env EXCEPT ![name] = Unset]
    /\ UNCHANGED <<pc, ai_config, question, invoked, msgs, net, response, result>>

\* ask_question: the adapter the `match ai_config.llm` enters
dispatch(llm) ==
    CASE llm = "OpenAI" -> "get_openai_response"
      [] llm = "Anthropic" -> "get_anthropic_response"
      [] llm = "Ollama" -> "get_ollama_response"

\* an ask_question whose adapters assemble the list in one buffer that all
\* calls of the process share
ask_question_shared_buffer(c, cfg, q, client_ok) ==
    /\ pc[c] = "idle"
    /\ LET adapter == dispatch(cfg.llm)
           out == CASE adapter = "get_openai_response" ->
                         get_openai_response(env, q, cfg, client_ok)
                    [] adapter = "get_anthropic_response" ->
                         get_anthropic_response(env, q, cfg, client_ok)
                    [] adapter = "get_ollama_response" ->
                         get_ollama_response(env, q, cfg, client_ok)
       IN /\ invoked' = [invoked EXCEPT ![c] = <<adapter>>]
          /\ pc' = [pc EXCEPT ![c] = out.pc]
          /\ msgs' = [d \in CallIds |-> out.msgs]
          /\ net' = [net EXCEPT ![c] = out.net]
          /\ result' = [result EXCEPT ![c] = out.result]
    /\ ai_config' = [ai_config EXCEPT ![c] = cfg]
    /\ question' = [question EXCEPT ![c] = q]
    /\ UNCHANGED <<env, response>>

\* ask_question(&ai_config, question), run to the adapter's await or to an
\* early return; client_ok is whether the Anthropic client can be built
ask_question(c, cfg, q, client_ok) ==
    /\ pc[c] = "idle"
    /\ LET adapter == dispatch(cfg.llm)
           out == CASE adapter = "get_openai_response" ->
                         get_openai_response(env, q, cfg, client_ok)
                    [] adapter = "get_anthropic_response" ->
                         get_anthropic_response(env, q, cfg, client_ok)
                    [] adapter = "get_ollama_response" ->
                         get_ollama_response(env, q, cfg, client_ok)
       IN /\ invoked' = [invoked EXCEPT ![c] = <<adapter>>]
          /\ pc' = [pc EXCEPT ![c] = out.pc]
          /\ msgs' = [msgs EXCEPT ![c] = out.msgs]
          /\ net' = [net EXCEPT ![c] = out.net]
          /\ result' = [result EXCEPT ![c] = out.result]
    /\ ai_config' = [ai_config EXCEPT ![c] = cfg]
    /\ question' = [question EXCEPT ![c] = q]
    /\ UNCHANGED <<env, response>>

\* a dispatcher that, when the adapter fails, tries the Ollama adapter
complete_with_fallback(c, resp) ==
    /\ pc[c] = "awaiting"
    /\ LET adapter == invoked[c][Len(invoked[c])]
           r == CASE adapter = "get_openai_response" -> openai_complete(ai_config[c], resp)
                  [] adapter = "get_anthropic_response" -> anthropic_complete(ai_config[c], resp)
                  [] adapter = "get_ollama_response" -> ollama_complete(ai_config[c], resp)
       IN IF r.tag = "Err" /\ adapter /= "get_ollama_response"
          THEN /\ invoked' = [invoked EXCEPT ![c] = Append(@, "get_ollama_response")]
               /\ net' = [net EXCEPT ![c] = @ \o get_ollama_response(env, question[c], ai_config[c], TRUE).net]
               /\ pc' = pc
               /\ result' = result
          ELSE /\ result' = [result EXCEPT ![c] = r]
               /\ pc' = [pc EXCEPT ![c] = "done"]
               /\ UNCHANGED <<invoked, net>>
    /\ response' = [response EXCEPT ![c] = resp]
    /\ UNCHANGED <<env, ai_config, question, msgs>>

\* the awaited provider call of call c completes with resp; the adapter
\* runs to its return and ask_question forwards the result with `?` / Ok
complete(c, resp) ==
    /\ pc[c] = "awaiting"
    /\ LET adapter == invoked[c][Len(invoked[c])]
           r == CASE adapter = "get_openai_response" -> openai_complete(ai_config[c], resp)
                  [] adapter = "get_anthropic_response" -> anthropic_complete(ai_config[c], resp)
                  [] adapter = "get_ollama_response" -> ollama_complete(ai_config[c], resp)
       IN result' = [result EXCEPT ![c] = r]
    /\ response' = [response EXCEPT ![c] = resp]
    /\ pc' = [pc EXCEPT ![c] = "done"]
    /\ UNCHANGED <<env, ai_config, question, invoked, msgs, net>>

\* the caller has taken the result; the call's slot is free again
finish(c) ==
    /\ pc[c] = "done"
    /\ pc' = [pc EXCEPT ![c] = "idle"]
    /\ ai_config' = [ai_config EXCEPT ![c] = NoConfig]
    /\ question' = [question EXCEPT ![c] = NoQuestion]
    /\ invoked' = [invoked EXCEPT ![c] = <<>>]
    /\ msgs' = [msgs EXCEPT ![c] = <<>>]
    /\ net' = [net EXCEPT ![c] = <<>>]
    /\ response' = [response EXCEPT ![c] = NoResponse]
    /\ result' = [result EXCEPT ![c] = NoResult]
    /\ UNCHANGED env

\* the questions used where the claim is about the call protocol and not
\* about the assembled list: no history or one full turn
ProtocolQuestion ==
    {q \in Question :
        /\ q.system_prompt \in {None, Some("sys")}
        /\ q.messages \in {None, Some(<<[content |-> "hello", output |-> "hi"]>>)}}

\* the embedding program changes the environment
EnvStep ==
    \/ \E n \in EnvNames : \E v \in EnvValues(n) : set_var(n, v)
    \/ \E n \in EnvNames : remove_var(n)

\* the calls of the set Active, made with the configurations Cfgs and the
\* questions Qs and answered with the responses Resps
CallStep(Active, Cfgs, Qs, Resps) ==
    \/ \E c \in Active : \E cfg \in Cfgs : \E q \in Qs : \E client_ok \in BOOLEAN :
          ask_question(c, cfg, q, client_ok)
    \/ \E c \in Active : \E resp \in Resps : complete(c, resp)
    \/ \E c \in Active : finish(c)

\* one caller, one call at a time, in an environment that changes
Next == EnvStep \/ CallStep({1}, AiConfig, ProtocolQuestion, Responses)

Spec == Init /\ [][Next]_vars

\* one caller asking every question of the bounded input space, with both
\* credentials in place
InitAssembly ==
    /\ env = [n \in EnvNames |-> IF n \in KeyNames THEN Value("key") ELSE Unset]
    /\ pc = [c \in CallIds |-> "idle"]
    /\ ai_config = [c \in CallIds |-> NoConfig]
    /\ question = [c \in CallIds |-> NoQuestion]
    /\ invoked = [c \in CallIds |-> <<>>]
    /\ msgs = [c \in CallIds |-> <<>>]
    /\ net = [c \in CallIds |-> <<>>]
    /\ response = [c \in CallIds |-> NoResponse]
    /\ result = [c \in CallIds |-> NoResult]

\* the configurations and the responses used where the claim is about the
\* assembled list: a model name the provider accepts, an answer or none
AssemblyConfig == {cfg \in AiConfig : cfg.model /= "claude-nonexistent-model"}
AssemblyResponses == {TransportFailure, Http(200, BodyAnswer)}

NextAssembly == CallStep({1}, AssemblyConfig, Question, AssemblyResponses)

SpecAssembly == InitAssembly /\ [][NextAssembly]_vars

\* two callers whose calls overlap in any order, in an environment that
\* changes: one configuration per provider, two questions, three answers
ConcurrentConfig ==
    {cfg \in AiConfig : cfg.model = "claude-3-haiku-20240307" /\ cfg.max_token = None}
ConcurrentQuestion ==
    {q \in ProtocolQuestion : q.system_prompt = None /\ q.new_prompt = "ask"}
ConcurrentResponses == {TransportFailure, Http(200, BodyAnswer), Http(200, BodyTwoAnswers)}

NextConcurrent ==
    EnvStep \/ CallStep(CallIds, ConcurrentConfig, ConcurrentQuestion, ConcurrentResponses)

SpecConcurrent == Init /\ [][NextConcurrent]_vars

\* two callers of the credentialed providers while the embedding program
\* sets, replaces and removes the credentials
CredentialValues == {Value("key"), Value("key2"), NotUnicodeValue}
CredentialConfig ==
    {cfg \in AiConfig :
        /\ cfg.max_token = None
        /\ \/ cfg.llm = "OpenAI" /\ cfg.model = "gpt-3.5-turbo"
           \/ cfg.llm = "Anthropic" /\ cfg.model = "claude-3-haiku-20240307"}
CredentialQuestion == {q \in ConcurrentQuestion : q.messages = None}
CredentialResponses == {Http(401, BodyErrorJson), Http(200, BodyAnswer)}

CredentialStep ==
    \/ \E n \in KeyNames : \E v \in CredentialValues : set_var(n, v)
    \/ \E n \in KeyNames : remove_var(n)

NextCredential ==
    CredentialStep \/ CallStep(CallIds, CredentialConfig, CredentialQuestion, CredentialResponses)

SpecCredential == Init /\ [][NextCredential]_vars

\* ------------------------------------------------- properties
\* the adapter call c is in
Adapter(c) == invoked[c][Len(invoked[c])]

\* call c got as far as handing its assembled list to the provider client
Assembled(c) == pc[c] /= "idle" /\ net[c] /= <<>>

\* both halves of every turn, in turn order, user half first
Halves(turns) ==
    [k \in 1..(2 * Len(turns)) |->
        IF k % 2 = 1
        THEN [role |-> "user", content |-> turns[(k + 1) \div 2].content]
        ELSE [role |-> "assistant", content |-> turns[k \div 2].output]]

NonEmptyEntry(e) == e.content /= ""

\* the entries a question's history stands for
HistoryEntries(q) ==
    IF is_some(q.messages) THEN SelectSeq(Halves(unwrap(q.messages)), NonEmptyEntry) ELSE <<>>

\* C1: the list assembled by the OpenAI and by the Ollama adapter is one
\* system entry, then every non-empty half of every history turn in the
\* original order (user before assistant), then one user entry for the new
\* prompt; nothing is reordered, dropped, deduplicated or truncated and the
\* texts are the source texts.
C1_MessageOrder ==
    \A c \in CallIds :
        (Assembled(c) /\ Adapter(c) \in {"get_openai_response", "get_ollama_response"}) =>
            LET m == msgs[c]
                n == Len(m)
                q == question[c]
            IN /\ n = Len(HistoryEntries(q)) + 2
               /\ m[1].role = "system"
               /\ is_some(q.system_prompt) => m[1].content = unwrap(q.system_prompt)
               /\ SubSeq(m, 2, n - 1) = HistoryEntries(q)
               /\ m[n].role = "user"
               /\ q.new_prompt /= "" => m[n].content = q.new_prompt

\* an OpenAI call whose two-turn history has an empty half and a repeated text
C1_Witness ==
    \E c \in CallIds :
        /\ Assembled(c)
        /\ Adapter(c) = "get_openai_response"
        /\ is_some(question[c].messages)
        /\ unwrap(question[c].messages) =
              <<[content |-> "hello", output |-> ""], [content |-> "hello", output |-> "hi"]>>
        /\ Len(msgs[c]) = 5

\* the text of the last entry of the list call c assembled
FinalText(c) ==
    LET last == msgs[c][Len(msgs[c])]
    IN IF Adapter(c) = "get_anthropic_response" THEN last.content[1].text ELSE last.content

\* C2: in all three adapters the final user entry is "." when new_prompt is
\* empty and new_prompt itself otherwise, and is never the empty string.
C2_FinalEntry ==
    \A c \in CallIds :
        Assembled(c) =>
            /\ msgs[c][Len(msgs[c])].role = "user"
            /\ question[c].new_prompt = "" => FinalText(c) = "."
            /\ question[c].new_prompt /= "" => FinalText(c) = question[c].new_prompt
            /\ FinalText(c) /= ""

\* an Anthropic call with an empty new prompt
C2_Witness ==
    \E c \in CallIds :
        /\ Assembled(c)
        /\ Adapter(c) = "get_anthropic_response"
        /\ question[c].new_prompt = ""
        /\ FinalText(c) = "."

\* the system text call c sends
SystemText(c) ==
    IF Adapter(c) = "get_anthropic_response"
    THEN unwrap(net[c][1].system).text
    ELSE msgs[c][1].content

\* C3: the system entry carries system_prompt verbatim when it is present
\* and the empty string when it is absent.
C3_SystemPrompt ==
    \A c \in CallIds :
        Assembled(c) =>
            SystemText(c) = IF is_some(question[c].system_prompt)
                            THEN unwrap(question[c].system_prompt)
                            ELSE ""

\* the adapter that belongs to a provider tag
AdapterOf(llm) ==
    IF llm = "OpenAI" THEN "get_openai_response"
    ELSE IF llm = "Anthropic" THEN "get_anthropic_response"
    ELSE "get_ollama_response"

\* C4: one ask_question enters exactly one adapter, the one of config.llm,
\* and makes at most one network call, to that provider.
C4_OneAdapterOneCall ==
    \A c \in CallIds :
        pc[c] /= "idle" =>
            /\ Len(invoked[c]) = 1
            /\ invoked[c][1] = AdapterOf(ai_config[c].llm)
            /\ Len(net[c]) <= 1
            /\ \A i \in 1..Len(net[c]) : net[c][i].provider = ai_config[c].llm

\* an OpenAI call that has returned after its one network call was answered
C4_Witness ==
    \E c \in CallIds :
        /\ pc[c] = "done"
        /\ ai_config[c].llm = "OpenAI"
        /\ response[c].transport = "ok"
        /\ Len(net[c]) = 1

\* C5: every ask_question ends in Ok(answer) or in Err of the Api or the
\* Model category; it never aborts.
C5_NeverPanics ==
    \A c \in CallIds :
        pc[c] = "done" =>
            \/ result[c].tag = "Ok"
            \/ /\ result[c].tag = "Err"
               /\ result[c].err.variant \in {"ApiError", "ModelError"}

\* call c is entered in this step
Entered(c) == pc[c] = "idle" /\ pc'[c] /= "idle"

\* the text std::env::var's failure displays as, for the state of a variable
ReadFailureText(v) ==
    IF v.state = "Unset" THEN <<"environment variable not found">>
    ELSE <<"environment variable was not valid unicode">>

\* the display name an Api-category error carries
ProviderName(e) ==
    IF e.model_name = "OpenAI" THEN "openai"
    ELSE IF e.model_name = "Anthropic" THEN "anthropic"
    ELSE IF e.model_name = "Ollama" THEN "ollama"
    ELSE "?"

\* C6: an OpenAI (Anthropic) call made while OPENAI_API_KEY
\* (ANTHROPIC_API_KEY) is missing or unreadable returns at once an
\* Api-category error carrying the provider, displayed "openai"
\* ("anthropic"), and the text of the read failure, without a network call.
C6_MissingCredential ==
    [][\A c \in CallIds : \A p \in {"OpenAI", "Anthropic"} :
          LET key == IF p = "OpenAI" THEN "OPENAI_API_KEY" ELSE "ANTHROPIC_API_KEY"
          IN (Entered(c) /\ ai_config'[c].llm = p /\ env[key].state /= "Value") =>
                /\ pc'[c] = "done"
                /\ result'[c].tag = "Err"
                /\ result'[c].err.variant = "ApiError"
                /\ result'[c].err.model_name = p
                /\ ProviderName(result'[c].err) = (IF p = "OpenAI" THEN "openai" ELSE "anthropic")
                /\ result'[c].err.failure_str = ReadFailureText(env[key])
                /\ net'[c] = <<>>]_vars

\* an OpenAI call that failed on an OPENAI_API_KEY that is not valid unicode
C6_Witness ==
    \E c \in CallIds :
        /\ pc[c] = "done"
        /\ ai_config[c].llm = "OpenAI"
        /\ result[c].tag = "Err"
        /\ result[c].err.variant = "ApiError"
        /\ result[c].err.failure_str = <<"environment variable was not valid unicode">>
        /\ net[c] = <<>>

\* the description mentions the text
Contains(failure_str, text) ==
    \E i \in 1..Len(failure_str) : failure_str[i] = text

\* the provider answered call c with a status outside 2xx
AnsweredNon2xx(c) ==
    pc[c] = "done" /\ response[c].transport = "ok" /\ ~Is2xx(response[c].status)

\* C7: a non-2xx answer to the OpenAI adapter makes ask_question return an
\* Api-category error of provider "openai" whose description contains the
\* numeric status and the raw body text.
C7_OpenAiNon2xx ==
    \A c \in CallIds :
        (AnsweredNon2xx(c) /\ ai_config[c].llm = "OpenAI") =>
            /\ result[c].tag = "Err"
            /\ result[c].err.variant = "ApiError"
            /\ ProviderName(result[c].err) = "openai"
            /\ Contains(result[c].err.failure_str, StatusText(response[c].status))
            /\ Contains(result[c].err.failure_str, response[c].body.raw)

\* C8: an Anthropic call whose model name is not a supported model is still
\* sent, as exactly one POST, and a non-2xx answer makes ask_question
\* return an Api-category error of provider "anthropic" whose description
\* contains the body text.
C8_AnthropicUnsupportedModel ==
    [][\A c \in CallIds :
          /\ (/\ Entered(c)
              /\ ai_config'[c].llm = "Anthropic"
              /\ ai_config'[c].model \notin KnownClaudeModels
              /\ env["ANTHROPIC_API_KEY"].state = "Value"
              /\ result'[c].tag /= "Panic") =>
                 (pc'[c] = "awaiting" /\ Len(net'[c]) = 1)
          /\ (/\ pc[c] = "awaiting"
              /\ ai_config[c].llm = "Anthropic"
              /\ AnsweredNon2xx(c)') =>
                 /\ Len(net'[c]) = 1
                 /\ result'[c].tag = "Err"
                 /\ result'[c].err.variant = "ApiError"
                 /\ ProviderName(result'[c].err) = "anthropic"
                 /\ Contains(result'[c].err.failure_str, response'[c].body.raw)]_vars

\* the provider answered call c with 2xx and a well-formed body
Answered2xxJson(c) ==
    /\ pc[c] = "done"
    /\ response[c].transport = "ok"
    /\ Is2xx(response[c].status)
    /\ response[c].body.valid_json

\* C9: HTTP 200 with an empty content array makes the Anthropic adapter
\* return a Model-category error that carries the configured model name and
\* a description containing "Failed to extract content".
C9_AnthropicEmptyContent ==
    \A c \in CallIds :
        (/\ Answered2xxJson(c)
         /\ ai_config[c].llm = "Anthropic"
         /\ response[c].body.has_list
         /\ response[c].body.items = <<>>) =>
            /\ result[c].tag = "Err"
            /\ result[c].err.variant = "ModelError"
            /\ result[c].err.model_name = ai_config[c].model
            /\ Contains(result[c].err.failure_str, "Failed to extract content")

\* C10: a 2xx answer to the OpenAI adapter in which
\* choices[0].message.content is absent or not a string makes ask_question
\* return a Model-category error with the fixed "failed to extract
\* content" message and the configured model name.
C10_OpenAiNoContent ==
    \A c \in CallIds :
        (/\ Answered2xxJson(c)
         /\ ai_config[c].llm = "OpenAI"
         /\ \/ ~response[c].body.has_list
            \/ response[c].body.items = <<>>
            \/ response[c].body.items[1].t /= "string") =>
            /\ result[c].tag = "Err"
            /\ result[c].err.variant = "ModelError"
            /\ result[c].err.model_name = ai_config[c].model
            /\ Contains(result[c].err.failure_str, "Failed to extract content")

\* the provider call of call c failed below HTTP
TransportFailed(c) == pc[c] = "done" /\ response[c].transport = "fail"

\* C11: a transport failure of the OpenAI or Anthropic call yields an
\* Api-category error carrying the provider and the failure text, never a
\* Model-category error; a Model-category error is returned only when the
\* call got a 2xx answer.
C11_TransportFailureIsApi ==
    \A c \in CallIds :
        (pc[c] = "done" /\ ai_config[c].llm \in {"OpenAI", "Anthropic"}) =>
            /\ TransportFailed(c) =>
                  /\ result[c].tag = "Err"
                  /\ result[c].err.variant = "ApiError"
                  /\ result[c].err.model_name = ai_config[c].llm
                  /\ result[c].err.failure_str = <<"error sending request">>
            /\ (/\ response[c].transport /= "none"
                /\ result[c].tag = "Err"
                /\ result[c].err.variant = "ModelError") =>
                  (response[c].transport = "ok" /\ Is2xx(response[c].status))

\* the answer to call c is one the Ollama client turns into a chat message
OllamaAnswerOk(c) ==
    /\ response[c].transport = "ok"
    /\ Is2xx(response[c].status)
    /\ response[c].body.valid_json
    /\ response[c].body.has_list
    /\ response[c].body.items /= <<>>
    /\ response[c].body.items[1].t = "string"

\* C12: the Ollama adapter reads no credential: whatever the environment,
\* it sends its one request without a key; every failure of the chat call
\* is returned as a Model-category error carrying the configured model name
\* and the failure's text, and never as an Api-category error.
C12_OllamaModelErrors ==
    \A c \in CallIds :
        (pc[c] /= "idle" /\ ai_config[c].llm = "Ollama") =>
            /\ Len(net[c]) = 1
            /\ ~is_some(net[c][1].key)
            /\ pc[c] = "done" =>
                  /\ result[c].tag \in {"Ok", "Err"}
                  /\ result[c].tag = "Err" <=> ~OllamaAnswerOk(c)
                  /\ result[c].tag = "Err" =>
                        /\ result[c].err.variant = "ModelError"
                        /\ result[c].err.model_name = ai_config[c].model
                        /\ result[c].err.failure_str = ClientErrorText(response[c])

\* an Ollama call that failed at transport level with no credential set
C12_Witness ==
    \E c \in CallIds :
        /\ pc[c] = "done"
        /\ ai_config[c].llm = "Ollama"
        /\ env["OPENAI_API_KEY"].state = "Unset"
        /\ env["ANTHROPIC_API_KEY"].state = "NotUnicode"
        /\ response[c].transport = "fail"
        /\ result[c].tag = "Err"
        /\ result[c].err.variant = "ModelError"

\* the answer to call c is a 2xx answer whose text fields are all strings
SuccessAnswer(c) ==
    /\ pc[c] = "done"
    /\ response[c].transport = "ok"
    /\ Is2xx(response[c].status)
    /\ response[c].body.valid_json
    /\ response[c].body.has_list
    /\ response[c].body.items /= <<>>
    /\ \A i \in 1..Len(response[c].body.items) : response[c].body.items[i].t = "string"

\* C13: on a successful answer every adapter returns the first text field
\* of the response unchanged, and ask_question returns that value.
C13_FirstTextUnchanged ==
    \A c \in CallIds :
        SuccessAnswer(c) => result[c] = [tag |-> "Ok", val |-> response[c].body.items[1].s]

\* an OpenAI call answered with two choices, the first with blanks around it
C13_Witness ==
    \E c \in CallIds :
        /\ SuccessAnswer(c)
        /\ ai_config[c].llm = "OpenAI"
        /\ Len(response[c].body.items) = 2
        /\ result[c].tag = "Ok"
        /\ result[c].val = " first answer "

\* what the adapter of call c returns for the answer resp
AdapterResult(c, resp) ==
    IF ai_config[c].llm = "OpenAI" THEN openai_complete(ai_config[c], resp)
    ELSE IF ai_config[c].llm = "Anthropic" THEN anthropic_complete(ai_config[c], resp)
    ELSE ollama_complete(ai_config[c], resp)

\* C14: when the adapter fails after its network call, ask_question returns
\* the adapter's error unchanged and makes no further network call: no
\* retry and no fallback to another provider.
C14_NoRetryNoFallback ==
    [][\A c \in CallIds :
          (/\ pc[c] = "awaiting"
           /\ response'[c] /= response[c]
           /\ AdapterResult(c, response'[c]).tag = "Err") =>
              /\ pc'[c] = "done"
              /\ result'[c] = AdapterResult(c, response'[c])
              /\ net'[c] = net[c]
              /\ Len(net'[c]) = 1
              /\ invoked'[c] = invoked[c]]_vars

\* an Anthropic call that returned the error of its one failed network call
C14_Witness ==
    \E c \in CallIds :
        /\ pc[c] = "done"
        /\ ai_config[c].llm = "Anthropic"
        /\ response[c].transport = "ok"
        /\ response[c].status = 401
        /\ result[c].tag = "Err"
        /\ Len(net[c]) = 1
        /\ invoked[c] = <<"get_anthropic_response">>

\* C15: the Anthropic adapter never puts the system prompt into the
\* messages list (every entry is a user or an assistant entry); it sends it
\* as the separate system field, equal to system_prompt when present and
\* to the empty string when absent; the last entry's text block is
\* new_prompt when that is non-empty.
C15_AnthropicSystemField ==
    \A c \in CallIds :
        (Assembled(c) /\ ai_config[c].llm = "Anthropic") =>
            LET req == net[c][1]
                n == Len(req.messages)
            IN /\ \A i \in 1..n : req.messages[i].role \in {"user", "assistant"}
               /\ is_some(req.system)
               /\ unwrap(req.system).text =
                     (IF is_some(question[c].system_prompt)
                      THEN unwrap(question[c].system_prompt) ELSE "")
               /\ question[c].new_prompt /= "" =>
                     req.messages[n].content[1].text = question[c].new_prompt

EndpointFor(e, p) ==
    LET name == IF p = "OpenAI" THEN "OPENAI_API_URL" ELSE "ANTHROPIC_API_URL"
        production == IF p = "OpenAI"
                      THEN "https://api.openai.com/v1/chat/completions"
                      ELSE "https://api.anthropic.com/v1/messages"
    IN IF e[name].state = "Value" THEN e[name].val ELSE production

\* C17: the one POST of an OpenAI (Anthropic) call goes to the value of
\* OPENAI_API_URL (ANTHROPIC_API_URL) when that variable is set at call
\* time and to the production URL only when it is unset.
C17_EndpointOverride ==
    [][\A c \in CallIds :
          (/\ Entered(c)
           /\ ai_config'[c].llm \in {"OpenAI", "Anthropic"}
           /\ pc'[c] = "awaiting") =>
              /\ Len(net'[c]) = 1
              /\ net'[c][1].url = EndpointFor(env, ai_config'[c].llm)]_vars

\* C18: with no history and a non-empty new_prompt the assembled sequence
\* has exactly two entries, one system entry and one final user entry whose
\* content is new_prompt (for Anthropic the system entry is the system
\* field and the messages list holds the user entry alone).
C18_NoHistoryTwoEntries ==
    \A c \in CallIds :
        (/\ Assembled(c)
         /\ ~is_some(question[c].messages)
         /\ question[c].new_prompt /= "") =>
            IF ai_config[c].llm = "Anthropic"
            THEN /\ Len(msgs[c]) = 1
                 /\ is_some(net[c][1].system)
                 /\ msgs[c][1].role = "user"
                 /\ msgs[c][1].content = <<[content_type |-> "text", text |-> question[c].new_prompt]>>
            ELSE /\ Len(msgs[c]) = 2
                 /\ msgs[c][1].role = "system"
                 /\ msgs[c][2] = [role |-> "user", content |-> question[c].new_prompt]

\* an Ollama call without history and without a system prompt
C18_Witness ==
    \E c \in CallIds :
        /\ Assembled(c)
        /\ ai_config[c].llm = "Ollama"
        /\ ~is_some(question[c].messages)
        /\ ~is_some(question[c].system_prompt)
        /\ question[c].new_prompt = "ask"
        /\ Len(msgs[c]) = 2

\* the number of non-empty halves in the first n turns
HalvesBefore(turns, n) ==
    Cardinality({j \in 1..n : turns[j].content /= ""})
    + Cardinality({j \in 1..n : turns[j].output /= ""})

\* the text of entry k of the list call c assembled
EntryText(c, k) ==
    IF ai_config[c].llm = "Anthropic" THEN msgs[c][k].content[1].text ELSE msgs[c][k].content

\* C19: every history turn contributes exactly its non-empty halves, the
\* user half before the assistant half: two entries, one or none; an empty
\* half is never emitted as an empty entry, and equal turns are each
\* emitted, whatever the length of the history.
C19_TurnContribution ==
    \A c \in CallIds :
        (Assembled(c) /\ is_some(question[c].messages)) =>
            LET turns == unwrap(question[c].messages)
                base == IF ai_config[c].llm = "Anthropic" THEN 0 ELSE 1
                m == msgs[c]
            IN /\ Len(m) = base + HalvesBefore(turns, Len(turns)) + 1
               /\ \A k \in (base + 1)..(Len(m) - 1) : EntryText(c, k) /= ""
               /\ \A i \in 1..Len(turns) :
                     LET k == base + HalvesBefore(turns, i - 1)
                         u == IF turns[i].content /= "" THEN 1 ELSE 0
                     IN /\ turns[i].content /= "" =>
                              (m[k + 1].role = "user" /\ EntryText(c, k + 1) = turns[i].content)
                        /\ turns[i].output /= "" =>
                              (/\ m[k + u + 1].role = "assistant"
                               /\ EntryText(c, k + u + 1) = turns[i].output)

\* an Anthropic call whose history repeats one full turn
C19_Witness ==
    \E c \in CallIds :
        /\ Assembled(c)
        /\ ai_config[c].llm = "Anthropic"
        /\ is_some(question[c].messages)
        /\ unwrap(question[c].messages) =
              <<[content |-> "hello", output |-> "hi"], [content |-> "hello", output |-> "hi"]>>
        /\ Len(msgs[c]) = 5

\* C20: no returned error is the Unexpected-category variant.
C20_NeverUnexpected ==
    \A c \in CallIds :
        result[c].tag = "Err" => result[c].err.variant /= "UnexpectedError"

\* an Anthropic call that returned the error of a failed provider call
C20_Witness ==
    \E c \in CallIds :
        /\ pc[c] = "done"
        /\ ai_config[c].llm = "Anthropic"
        /\ response[c].transport = "fail"
        /\ result[c].tag = "Err"

\* everything the program holds for call c
CallState(c) ==
    <<pc[c], ai_config[c], question[c], invoked[c], msgs[c], net[c], response[c], result[c]>>

\* what a call with these arguments does in environment e when it runs alone
Alone(e, cfg, q, client_ok) ==
    IF cfg.llm = "OpenAI" THEN get_openai_response(e, q, cfg, client_ok)
    ELSE IF cfg.llm = "Anthropic" THEN get_anthropic_response(e, q, cfg, client_ok)
    ELSE get_ollama_response(e, q, cfg, client_ok)

\* C21: calls in flight together are independent: the list a call
\* assembles, the request it sends and the result it returns are those the
\* same call produces alone from its own configuration, its own question,
\* the environment and its own provider response; a step of one call
\* changes nothing another call holds, and nothing but a call's own steps
\* changes what it holds.
C21_CallsIndependent ==
    [][\A c \in CallIds :
          /\ Entered(c) =>
                \E client_ok \in BOOLEAN :
                    LET out == Alone(env, ai_config'[c], question'[c], client_ok)
                    IN /\ msgs'[c] = out.msgs
                       /\ net'[c] = out.net
                       /\ result'[c] = out.result
                       /\ pc'[c] = out.pc
          /\ (pc[c] = "awaiting" /\ pc'[c] = "done") =>
                /\ result'[c] = AdapterResult(c, response'[c])
                /\ msgs'[c] = msgs[c]
                /\ net'[c] = net[c]
          /\ CallState(c)' /= CallState(c) =>
                /\ pc'[c] /= pc[c]
                /\ \A d \in CallIds \ {c} : CallState(d)' = CallState(d)]_vars

\* an OpenAI call still in flight beside an Anthropic call that was made
\* with another question and has returned its answer
C21_Witness ==
    /\ pc[1] = "awaiting"
    /\ ai_config[1].llm = "OpenAI"
    /\ pc[2] = "done"
    /\ ai_config[2].llm = "Anthropic"
    /\ question[1] /= question[2]
    /\ Len(msgs[1]) = 4
    /\ Len(msgs[2]) = 1
    /\ result[2] = Ok(" first answer ")

\* the credential variable of a provider
KeyOf(llm) == IF llm = "OpenAI" THEN "OPENAI_API_KEY" ELSE "ANTHROPIC_API_KEY"

\* the result is the Api-category error of a credential that is not set
MissingCredentialError(r, llm) ==
    /\ r.tag = "Err"
    /\ r.err.variant = "ApiError"
    /\ r.err.model_name = llm
    /\ r.err.failure_str = <<"environment variable not found">>

\* C22: the credential is read at every call and never kept: whatever
\* calls came before, an OpenAI or Anthropic call returns the
\* missing-credential Api-category error exactly when the credential
\* variable is unset at the moment of the call, and a call that sends a
\* request sends the value the variable holds at that moment.
C22_CredentialReadPerCall ==
    [][\A c \in CallIds :
          (Entered(c) /\ ai_config'[c].llm \in {"OpenAI", "Anthropic"}) =>
              LET llm == ai_config'[c].llm
                  now == env[KeyOf(llm)]
              IN /\ MissingCredentialError(result'[c], llm) <=> now.state = "Unset"
                 /\ now.state = "Value" =>
                       ~(result'[c].tag = "Err" /\ result'[c].err.variant = "ApiError")
                 /\ net'[c] /= <<>> =>
                       (now.state = "Value" /\ net'[c][1].key = Some(now.val))]_vars

\* an OpenAI call sent with the first value of the credential and still in
\* flight, a second OpenAI call that found the credential removed, and the
\* credential set to a new value since
C22_Witness ==
    /\ ai_config[1].llm = "OpenAI" /\ ai_config[2].llm = "OpenAI"
    /\ pc[1] = "awaiting"
    /\ net[1][1].key = Some("key")
    /\ pc[2] = "done"
    /\ MissingCredentialError(result[2], "OpenAI")
    /\ env["OPENAI_API_KEY"] = Value("key2")

\* an Anthropic messages list as (role, content) pairs, the content being
\* the text of the entry's one text block
Plain(m) ==
    [k \in 1..Len(m) |-> [role |-> m[k].role, content |-> m[k].content[1].text]]

\* C23: the three adapters assemble the same list: for the question of a
\* call the Ollama list equals the OpenAI list, and the Anthropic messages
\* list is that list without its leading system entry, whose text is the
\* Anthropic system field; the list the call assembled is its adapter's.
C23_AssembliesAgree ==
    \A c \in CallIds :
        Assembled(c) =>
            LET q == question[c]
                common == ollama_msgs(q)
            IN /\ openai_msgs(q) = common
               /\ common[1].role = "system"
               /\ Plain(anthropic_msgs(q)) = Tail(common)
               /\ anthropic_sys_prompt(q).text = common[1].content
               /\ \A k \in 1..Len(anthropic_msgs(q)) : Len(anthropic_msgs(q)[k].content) = 1
               /\ msgs[c] = (IF ai_config[c].llm = "Anthropic" THEN anthropic_msgs(q) ELSE common)

\* an Ollama call with an empty new prompt and a history of two turns, of
\* which one half is empty
C23_Witness ==
    \E c \in CallIds :
        /\ Assembled(c)
        /\ ai_config[c].llm = "Ollama"
        /\ question[c].new_prompt = ""
        /\ is_some(question[c].messages)
        /\ Len(unwrap(question[c].messages)) = 2
        /\ Len(msgs[c]) = 5
        /\ Plain(anthropic_msgs(question[c])) = Tail(msgs[c])

\* the number of entries of a list that have the role
CountRole(m, role) == Cardinality({k \in 1..Len(m) : m[k].role = role})

\* C24: the list the Ollama adapter hands to the provider client for
\* transmission is the assembled list itself: every assembled entry once,
\* in assembled order, with exactly one system entry and the new prompt as
\* the last entry.
C24_OllamaSendsListOnce ==
    \A c \in CallIds :
        (Assembled(c) /\ ai_config[c].llm = "Ollama") =>
            LET sent == net[c][1].messages
            IN /\ sent = msgs[c]
               /\ CountRole(sent, "system") = 1
               /\ sent[Len(sent)].role = "user"
               /\ question[c].new_prompt /= "" =>
                     sent[Len(sent)].content = question[c].new_prompt

\* C25: the Anthropic adapter looks up the credential first, parses the
\* model name next and only then assembles and sends: without a credential
\* the result is the Api-category error even when the model name does not
\* parse; with a credential and a model name that is no known Claude model
\* the result is a Model-category error carrying the configured model name,
\* and no network call is made.
C25_AnthropicStepOrder ==
    [][\A c \in CallIds :
          (Entered(c) /\ ai_config'[c].llm = "Anthropic") =>
              LET credential == env["ANTHROPIC_API_KEY"]
                  parses == ai_config'[c].model \in KnownClaudeModels
              IN /\ credential.state /= "Value" =>
                       /\ result'[c].tag = "Err"
                       /\ result'[c].err.variant = "ApiError"
                       /\ net'[c] = <<>>
                 /\ (credential.state = "Value" /\ ~parses) =>
                       /\ result'[c].tag = "Err"
                       /\ result'[c].err.variant = "ModelError"
                       /\ result'[c].err.model_name = ai_config'[c].model
                       /\ net'[c] = <<>>]_vars

====
